---------------------------- MODULE Spec2Model ----------------------------
(***************************************************************************)
(* Model of the puller service of src/main.go: a ticker loop that, on      *)
(* every tick, lists the containers, pulls the image of every container    *)
(* whose image reference contains the registry URL, and restarts the       *)
(* container when the pull stream reports a newer image.                   *)
(*                                                                         *)
(* Strings the code searches with strings.Contains are sequences (of       *)
(* one-character strings for image references, of words for the messages   *)
(* of the pull stream), so that containment is computed, not assumed.      *)
(* The Docker daemon and the registry are the environment: the local tag   *)
(* store, the remote tags and the outcome of every client call.            *)
(***************************************************************************)
EXTENDS Integers, Sequences, FiniteSets, TLC

\* ------------------------------------------------------------- bounds
NumContainers == 2
MaxPulls == 3

\* ------------------------------------------------------------- strings
\* strings.Contains(s, sub): sub occurs in s as a contiguous run ("" always does).
Contains(s, sub) ==
    \E k \in 0..(Len(s) - Len(sub)) : SubSeq(s, k + 1, k + Len(sub)) = sub

\* Position of the last occurrence of ch in s, 0 when there is none.
LastIndex(s, ch) ==
    LET hits == {k \in 1..Len(s) : s[k] = ch}
    IN  IF hits = {} THEN 0 ELSE CHOOSE k \in hits : \A m \in hits : m <= k

\* ------------------------------------------------------------- fixtures
RegistryURL == <<"r", "g">>
RegistryUser == <<"u", "s">>
NotificationURL == <<"h", "/", "n">>
Canary == <<"c", "a", "n", "a", "r", "y">>
Latest == <<"l", "a", "t", "e", "s", "t">>

\* rg/a, rg:5/b:v, us/c:v, x/d
ImageRefs ==
    { <<"r", "g", "/", "a">>,
      <<"r", "g", ":", "5", "/", "b", ":", "v">>,
      <<"u", "s", "/", "c", ":", "v">>,
      <<"x", "/", "d">> }

NoImage == 0
NoTime == -1
ImgIds == 1..4

\* Creation time of an image (imgInspect.Created parsed), NoTime when absent.
ImageCreated(id) ==
    CASE id = 1 -> 1
      [] id = 2 -> 2
      [] id = 3 -> 0
      [] OTHER  -> NoTime

LinuxArm64 == <<"linux", "arm64">>
LinuxAmd64 == <<"linux", "amd64">>

\* Os and Architecture of a local image (imgInspect.Os, imgInspect.Architecture).
ImageOsArch(id) == IF id = 2 THEN LinuxAmd64 ELSE LinuxArm64

\* The platforms the registry holds a manifest of, per reference and image:
\* the repository on the registry port publishes image 3 for amd64 only and
\* image 4 for no linux platform; everything else is published for both.
Manifests(t, id) ==
    CASE Contains(t, <<":", "5", "/">>) /\ id = 3 -> {LinuxAmd64}
      [] Contains(t, <<":", "5", "/">>) /\ id = 4 -> {}
      [] OTHER -> {LinuxArm64, LinuxAmd64}

\* ------------------------------------------------------------- pull stream
MsgPulling == [Status |-> <<"Pulling", "from">>, Error |-> <<>>]
MsgNewer == [Status |-> <<"Status:", "Downloaded", "newer", "image">>, Error |-> <<>>]
MsgUpToDate == [Status |-> <<"Status:", "Image", "is", "up", "to", "date">>, Error |-> <<>>]
MsgNoManifest == [Status |-> <<>>, Error |-> <<"no", "matching", "manifest", "for", "platform">>]
MsgDenied == [Status |-> <<>>, Error |-> <<"pull", "access", "denied">>]

VARIABLES
    cfg,                \* flags and environment read by main
    ctr,                \* the daemon's containers
    tags,               \* the daemon's local tag store: reference -> image id
    remote,             \* the registry: reference -> image id
    pc,                 \* position of the main goroutine
    containers,         \* result of ContainerList of the running tick
    i,                  \* index of the container being processed
    eligibleContainers,
    updatedContainers,
    skippedContainers,
    resp,               \* unread messages of the pull response being decoded
    needsUpdate,
    ticker,             \* firings waiting in the channel of the ticker
    log                 \* what the running (or last) tick issued and sent

vars == <<cfg, ctr, tags, remote, pc, containers, i, eligibleContainers,
          updatedContainers, skippedContainers, resp, needsUpdate, ticker, log>>

Idx == 1..NumContainers

\* ------------------------------------------------------------- references
\* A reference carries a tag when a ":" follows its last "/".
HasTag(image) == LastIndex(image, ":") > LastIndex(image, "/")

\* The reference cli.ImagePull asks the daemon for: the image as given, the
\* client adding the default tag to a reference without one.
PullTarget(image) == IF HasTag(image) THEN image ELSE image \o <<":">> \o Latest

Repos == {PullTarget(r) : r \in ImageRefs}

\* The references of the secondary tag: the tag appended to every reference
\* that has no ":".
SecondaryRefs ==
    {r \o <<":">> \o Canary : r \in {x \in ImageRefs : ~Contains(x, <<":">>)}}

\* ------------------------------------------------------------- daemon
\* What cli.ImagePull(ref, platform) can come to: a call error, or a response
\* stream. A stream that pulled an image moves the local tag to it and says
\* "Downloaded newer image" exactly when the tag pointed elsewhere before.
DaemonPull(ref, platform) ==
    LET t == PullTarget(ref)
        rid == remote[t]
    IN  { [err |-> TRUE, stream |-> <<>>, tags |-> tags, pulled |-> NoImage],
          [err |-> FALSE, stream |-> <<MsgDenied>>, tags |-> tags, pulled |-> NoImage],
          IF platform \in Manifests(t, rid)
          THEN [err |-> FALSE,
                stream |-> <<MsgPulling, IF tags[t] = rid THEN MsgUpToDate ELSE MsgNewer>>,
                tags |-> [tags EXCEPT ![t] = rid],
                pulled |-> rid]
          ELSE [err |-> FALSE, stream |-> <<MsgPulling, MsgNoManifest>>,
                tags |-> tags, pulled |-> NoImage] }

\* cli.ContainerRestart: the same container, stopped and started again; its
\* configuration and its image are those it was created with.
ContainerRestart(c) == [c EXCEPT !.Running = TRUE]

\* The references of the configured registry account: those naming its host or
\* its user.
Hosted(t) == Contains(t, cfg.registryURL) \/ Contains(t, cfg.registryUser)

\* The registry publishes another image under a hosted reference in use
\* (between two ticks: a tick sees one state of the registry).
Publish(t, id) ==
    /\ pc = "wait"
    /\ Hosted(t)
    /\ \E k \in Idx : PullTarget(ctr[k].Image) = t
    /\ remote[t] # id
    /\ remote' = [remote EXCEPT ![t] = id]
    /\ UNCHANGED <<cfg, ticker, ctr, tags, pc, containers, i, eligibleContainers,
                   updatedContainers, skippedContainers, resp, needsUpdate, log>>

\* The local tag of the reference of container k is the image the registry
\* holds under it.
InSync(k) == tags[PullTarget(ctr[k].Image)] = remote[PullTarget(ctr[k].Image)]

\* ------------------------------------------------------------- program
\* A notification that is sent whatever the URL.
notifyAlways(n) == n + 1

\* notify(url, message): nothing is sent without a URL.
notify(n) == IF cfg.notificationURL = <<>> THEN n ELSE n + 1

EmptyLog ==
    [ pulls      |-> 0,
      probed     |-> [k \in Idx |-> <<>>],
      verdict    |-> [k \in Idx |-> "none"],
      pulled     |-> [k \in Idx |-> NoImage],
      restarts   |-> [k \in Idx |-> 0],
      updated    |-> [k \in Idx |-> FALSE],
      okNotes    |-> [k \in Idx |-> 0],
      errNotes   |-> [k \in Idx |-> 0],
      prunes     |-> 0,
      pruneNotes |-> 0,
      cycleNotes |-> 0,
      ops        |-> [k \in Idx |-> <<>>],
      failed     |-> [k \in Idx |-> FALSE],
      settled    |-> [k \in Idx |-> FALSE],
      listErr    |-> FALSE,
      faults     |-> FALSE ]

\* One entry of ContainerList: the fields of types.Container the code reads.
Summary(c) == [ID |-> c.ID, Names |-> c.Names, Image |-> c.Image, ImageID |-> c.ImageID]

\* The filter of the listing: with label-enable, the daemon keeps the
\* containers that carry the label puller.update.enable, whatever its value.
InListing(c) == cfg.labelEnable => c.Label # "none"

\* cli.ContainerList with All: true and the filter, in the order of the daemon.
Listing ==
    LET kept == SelectSeq(ctr, InListing)
    IN  [k \in 1..Len(kept) |-> Summary(kept[k])]

\* The container the loop is at.
Cur == containers[i].ID

\* A registry test that every image passes.
FromAnywhere(image) == TRUE

\* The registry test of the eligibility count and of the loop.
FromRegistry(image) == Contains(image, cfg.registryURL)

\* Container k of the daemon: what the model keeps of its configuration, the
\* value of its enable label ("none" without the label) and its run state.
\* Every container was created from image 1.
Container(k, image, label, running) ==
    [ ID |-> k, Names |-> << <<"/c", k>> >>, Image |-> image, ImageID |-> 1,
      Env |-> <<"ENV", k>>, Mounts |-> <<"/data", k>>,
      Networks |-> <<"net", k>>, Label |-> label, Running |-> running ]

\* The start of main apart from the configuration and the containers: the
\* local tags and the registry hold image 1 under every reference in use; the
\* registry holds image 2 under every reference of the secondary tag, and
\* the daemon has no such tag.
Rest ==
    /\ tags = [t \in Repos \cup SecondaryRefs |-> IF t \in Repos THEN 1 ELSE NoImage]
    /\ remote = [t \in Repos \cup SecondaryRefs |-> IF t \in Repos THEN 1 ELSE 2]
    /\ pc = "init"
    /\ ticker = 0
    /\ containers = <<>>
    /\ i = 0
    /\ eligibleContainers = 0
    /\ updatedContainers = 0
    /\ skippedContainers = 0
    /\ resp = <<>>
    /\ needsUpdate = FALSE
    /\ log = EmptyLog

Init ==
    /\ cfg \in [ cleanup : BOOLEAN,
                 notificationURL : {<<>>, NotificationURL},
                 registryURL : {RegistryURL},
                 registryUser : {RegistryUser},
                 registryTag : {Canary},
                 labelEnable : {FALSE},
                 interval : {"long"} ]
    /\ \E image \in [Idx -> ImageRefs] :
         ctr = [k \in Idx |-> Container(k, image[k], "none", TRUE)]
    /\ Rest

\* A tick that starts even while one is running.
AtTickerOrBusy == pc = "init" \/ ticker > 0

\* main calls checkContainers: once at the start, then whenever it is at the
\* ticker and a firing waits in the channel.
AtTicker == pc = "init" \/ (pc = "wait" /\ ticker > 0)

\* The channel after the receive that starts a tick (the first call receives
\* nothing).
Received == IF pc = "init" THEN ticker ELSE ticker - 1

\* A listing error that ends the process.
ListFailFatal ==
    /\ AtTicker
    /\ ticker' = Received
    /\ log' = [log EXCEPT !.listErr = TRUE, !.faults = TRUE]
    /\ pc' = "exit"
    /\ UNCHANGED <<cfg, ctr, tags, remote, containers, i, eligibleContainers,
                   updatedContainers, skippedContainers, resp, needsUpdate>>

\* checkContainers, ContainerList failing: the error goes back to main, which
\* logs it and notifies.
ListFail ==
    /\ AtTicker
    /\ ticker' = Received
    /\ log' = [log EXCEPT !.cycleNotes = notify(@), !.listErr = TRUE, !.faults = TRUE]
    /\ pc' = "done"
    /\ UNCHANGED <<cfg, ctr, tags, remote, containers, i, eligibleContainers,
                   updatedContainers, skippedContainers, resp, needsUpdate>>

\* checkContainers up to the loop: the listing, the eligibility count and the
\* early return when no image is from the registry.
ListContainers ==
    /\ AtTicker
    /\ ticker' = Received
    /\ LET list == Listing
           n == Cardinality({k \in DOMAIN list : FromRegistry(list[k].Image)})
       IN  /\ containers' = list
           /\ eligibleContainers' = n
           /\ pc' = IF n = 0 THEN "done" ELSE "loop"
           /\ i' = IF n = 0 THEN 0 ELSE 1
    /\ log' = [log EXCEPT !.settled = [k \in Idx |-> ctr[k].Running /\ InSync(k)]]
    /\ UNCHANGED <<cfg, ctr, tags, remote, updatedContainers, skippedContainers,
                   resp, needsUpdate>>

InLoop == pc = "loop" /\ i <= Len(containers)

\* `continue`: on to the next container of the listing.
NextContainer ==
    /\ pc' = "loop"
    /\ i' = i + 1
    /\ resp' = <<>>
    /\ needsUpdate' = FALSE

Skip ==
    /\ InLoop
    /\ ~FromRegistry(containers[i].Image)
    /\ skippedContainers' = skippedContainers + 1
    /\ NextContainer
    /\ UNCHANGED <<cfg, ticker, ctr, tags, remote, containers, eligibleContainers,
                   updatedContainers, log>>

InspectFail ==
    /\ InLoop
    /\ FromRegistry(containers[i].Image)
    /\ log' = [log EXCEPT !.verdict[Cur] = "inspect failed", !.faults = TRUE]
    /\ NextContainer
    /\ UNCHANGED <<cfg, ticker, ctr, tags, remote, containers, eligibleContainers,
                   updatedContainers, skippedContainers>>

\* The pulls of the running check are counted up to MaxPulls.
Bump(n) == IF n < MaxPulls THEN n + 1 ELSE n

\* pullImageAndCheckUpdate, the first ImagePull failing.
PullError ==
    /\ InLoop
    /\ FromRegistry(containers[i].Image)
    /\ \E out \in DaemonPull(containers[i].Image, ImageOsArch(containers[i].ImageID)) :
         /\ out.err
         /\ log' = [log EXCEPT !.pulls = 1,
                                !.probed[Cur] = <<PullTarget(containers[i].Image)>>,
                                !.verdict[Cur] = "error",
                                !.faults = TRUE]
    /\ NextContainer
    /\ UNCHANGED <<cfg, ticker, ctr, tags, remote, containers, eligibleContainers,
                   updatedContainers, skippedContainers>>

\* pullImageAndCheckUpdate, the first ImagePull answering with a stream.
PullStream ==
    /\ InLoop
    /\ FromRegistry(containers[i].Image)
    /\ \E out \in DaemonPull(containers[i].Image, ImageOsArch(containers[i].ImageID)) :
         /\ ~out.err
         /\ resp' = out.stream
         /\ tags' = out.tags
         /\ log' = [log EXCEPT !.pulls = 1,
                                !.probed[Cur] = <<PullTarget(containers[i].Image)>>,
                                !.pulled[Cur] = out.pulled]
    /\ needsUpdate' = FALSE
    /\ pc' = "decode"
    /\ UNCHANGED <<cfg, ticker, ctr, remote, containers, i, eligibleContainers,
                   updatedContainers, skippedContainers>>

\* A caller that restarts whatever the check returned.
ReturnRestarts(fault) ==
    /\ pc' = "restart"
    /\ log' = [log EXCEPT !.verdict[Cur] = IF needsUpdate THEN "update" ELSE "no update",
                           !.faults = @ \/ fault]
    /\ UNCHANGED <<i, resp, needsUpdate>>

\* The end of the decode loop (EOF, or a message that does not decode): the
\* function returns needsUpdate, and the caller restarts or moves on.
Return(fault) ==
    IF needsUpdate
    THEN /\ pc' = "restart"
         /\ log' = [log EXCEPT !.verdict[Cur] = "update", !.faults = @ \/ fault]
         /\ UNCHANGED <<i, resp, needsUpdate>>
    ELSE /\ log' = [log EXCEPT !.verdict[Cur] = "no update", !.faults = @ \/ fault]
         /\ NextContainer

DecodeEOF ==
    /\ pc = "decode"
    /\ resp = <<>>
    /\ Return(FALSE)
    /\ UNCHANGED <<cfg, ticker, ctr, tags, remote, containers, eligibleContainers,
                   updatedContainers, skippedContainers>>

DecodeFail ==
    /\ pc = "decode"
    /\ resp # <<>>
    /\ Return(TRUE)
    /\ UNCHANGED <<cfg, ticker, ctr, tags, remote, containers, eligibleContainers,
                   updatedContainers, skippedContainers>>

NoMatchingManifest(msg) == Contains(msg.Error, <<"no", "matching", "manifest">>)

DecodeError ==
    /\ pc = "decode"
    /\ resp # <<>>
    /\ Head(resp).Error # <<>>
    /\ ~NoMatchingManifest(Head(resp))
    /\ resp' = Tail(resp)
    /\ log' = [log EXCEPT !.faults = TRUE]
    /\ UNCHANGED <<cfg, ticker, ctr, tags, remote, pc, containers, i, eligibleContainers,
                   updatedContainers, skippedContainers, needsUpdate>>

\* The fallback pull for linux/amd64 failing: the error is returned.
FallbackError ==
    /\ pc = "decode"
    /\ resp # <<>>
    /\ NoMatchingManifest(Head(resp))
    /\ \E out \in DaemonPull(containers[i].Image, LinuxAmd64) :
         /\ out.err
         /\ log' = [log EXCEPT !.pulls = Bump(@), !.verdict[Cur] = "error", !.faults = TRUE]
    /\ NextContainer
    /\ UNCHANGED <<cfg, ticker, ctr, tags, remote, containers, eligibleContainers,
                   updatedContainers, skippedContainers>>

\* The fallback pull for linux/amd64 answering: decoding goes on with the new
\* response.
FallbackStream ==
    /\ pc = "decode"
    /\ resp # <<>>
    /\ NoMatchingManifest(Head(resp))
    /\ \E out \in DaemonPull(containers[i].Image, LinuxAmd64) :
         /\ ~out.err
         /\ resp' = out.stream
         /\ tags' = out.tags
         /\ log' = [log EXCEPT !.pulls = Bump(@), !.pulled[Cur] = out.pulled]
    /\ UNCHANGED <<cfg, ticker, ctr, remote, pc, containers, i, eligibleContainers,
                   updatedContainers, skippedContainers, needsUpdate>>

\* A test that takes every status line for the report of a newer image.
AnyStatus(msg) == msg.Status # <<>>

\* The status line that reports a newer image.
DownloadedNewer(msg) == Contains(msg.Status, <<"Downloaded", "newer", "image">>)

DecodeStatus ==
    /\ pc = "decode"
    /\ resp # <<>>
    /\ Head(resp).Error = <<>>
    /\ needsUpdate' = (needsUpdate \/ DownloadedNewer(Head(resp)))
    /\ resp' = Tail(resp)
    /\ UNCHANGED <<cfg, ticker, ctr, tags, remote, pc, containers, i, eligibleContainers,
                   updatedContainers, skippedContainers, log>>

\* A failing restart that is logged and not notified.
RestartFailSilent ==
    /\ pc = "restart"
    /\ log' = [log EXCEPT !.restarts[Cur] = @ + 1, !.ops[Cur] = Append(@, "restart"),
                           !.failed[Cur] = TRUE, !.faults = TRUE]
    /\ NextContainer
    /\ UNCHANGED <<cfg, ticker, ctr, tags, remote, containers, eligibleContainers,
                   updatedContainers, skippedContainers>>

\* cli.ContainerRestart failing: the error is logged and notified, and the
\* loop goes on.
RestartFail ==
    /\ pc = "restart"
    /\ log' = [log EXCEPT !.restarts[Cur] = @ + 1, !.ops[Cur] = Append(@, "restart"),
                           !.failed[Cur] = TRUE, !.errNotes[Cur] = notify(@),
                           !.faults = TRUE]
    /\ NextContainer
    /\ UNCHANGED <<cfg, ticker, ctr, tags, remote, containers, eligibleContainers,
                   updatedContainers, skippedContainers>>

\* A prune that does not ask the cleanup flag.
PrunesAlways == TRUE

\* Whether the code prunes after an update.
PrunesNow == cfg.cleanup

\* The restart succeeding: the success notification, the count, and the prune
\* (failing or not) when cleanup is on.
RestartOk ==
    /\ pc = "restart"
    /\ ctr' = [ctr EXCEPT ![containers[i].ID] = ContainerRestart(@)]
    /\ updatedContainers' = updatedContainers + 1
    /\ \E pruneFails \in BOOLEAN :
         log' = [log EXCEPT !.restarts[Cur] = @ + 1,
                            !.ops[Cur] = Append(@, "restart"),
                            !.updated[Cur] = TRUE,
                            !.okNotes[Cur] = notify(@),
                            !.prunes = IF PrunesNow THEN @ + 1 ELSE @,
                            !.pruneNotes = IF PrunesNow /\ pruneFails THEN notify(@) ELSE @,
                            !.faults = @ \/ (PrunesNow /\ pruneFails)]
    /\ NextContainer
    /\ UNCHANGED <<cfg, ticker, tags, remote, containers, eligibleContainers, skippedContainers>>

\* The loop is over: the summary is logged and nil returned; main waits for
\* the ticker.
LoopEnd ==
    /\ pc = "loop"
    /\ i > Len(containers)
    /\ pc' = "done"
    /\ UNCHANGED <<cfg, ticker, ctr, tags, remote, containers, i, eligibleContainers,
                   updatedContainers, skippedContainers, resp, needsUpdate, log>>

\* main is back at the ticker: the locals of the call are gone.
Wait ==
    /\ pc = "done"
    /\ pc' = "wait"
    /\ containers' = <<>>
    /\ i' = 0
    /\ eligibleContainers' = 0
    /\ updatedContainers' = 0
    /\ skippedContainers' = 0
    /\ log' = EmptyLog
    /\ UNCHANGED <<cfg, ticker, ctr, tags, remote, resp, needsUpdate>>

Program ==
    \/ ListFail
    \/ ListContainers
    \/ Skip
    \/ InspectFail
    \/ PullError
    \/ PullStream
    \/ DecodeEOF
    \/ DecodeFail
    \/ DecodeError
    \/ FallbackError
    \/ FallbackStream
    \/ DecodeStatus
    \/ RestartFail
    \/ RestartOk
    \/ LoopEnd
    \/ Wait

Registry == \E t \in Repos, id \in ImgIds : Publish(t, id)

\* The ticker fires: the firing waits in the channel of capacity one, or is
\* dropped when one waits already. An interval longer than any tick fires
\* only while main is at the ticker.
TickerFire ==
    /\ pc = "wait" \/ cfg.interval = "short"
    /\ ticker = 0
    /\ ticker' = 1
    /\ UNCHANGED <<cfg, ctr, tags, remote, pc, containers, i, eligibleContainers,
                   updatedContainers, skippedContainers, resp, needsUpdate, log>>

Next == Program \/ Registry \/ TickerFire

Spec == Init /\ [][Next]_vars

\* The main goroutine runs whenever it can.
FairSpec == Spec /\ WF_vars(Program)

\* The service started with -label-enable, the containers carrying the enable
\* label with the value true, with the value false, or not at all.
LabelInit ==
    /\ cfg \in [ cleanup : {TRUE},
                 notificationURL : {NotificationURL},
                 registryURL : {RegistryURL},
                 registryUser : {RegistryUser},
                 registryTag : {Canary},
                 labelEnable : {TRUE},
                 interval : {"long"} ]
    /\ \E image \in [Idx -> ImageRefs], label \in [Idx -> {"none", "true", "false"}] :
         ctr = [k \in Idx |-> Container(k, image[k], label[k], TRUE)]
    /\ Rest

LabelSpec == LabelInit /\ [][Next]_vars

\* The references that do not name the user of the registry account.
HostRefs == {r \in ImageRefs : ~Contains(r, RegistryUser)}

\* The service with an interval that a tick can outlast: the ticker fires at
\* any time.
ShortInit ==
    /\ cfg \in [ cleanup : {TRUE},
                 notificationURL : {NotificationURL},
                 registryURL : {RegistryURL},
                 registryUser : {RegistryUser},
                 registryTag : {Canary},
                 labelEnable : {FALSE},
                 interval : {"short"} ]
    /\ \E image \in [Idx -> HostRefs] :
         ctr = [k \in Idx |-> Container(k, image[k], "none", TRUE)]
    /\ Rest

ShortSpec == ShortInit /\ [][Next]_vars

\* The service over containers that are all stopped at the start (the listing
\* has All: true): a container runs once the service has restarted it.
StoppedInit ==
    /\ cfg \in [ cleanup : {FALSE},
                 notificationURL : {NotificationURL},
                 registryURL : {RegistryURL},
                 registryUser : {RegistryUser},
                 registryTag : {Canary},
                 labelEnable : {FALSE},
                 interval : {"long"} ]
    /\ \E image \in [Idx -> HostRefs] :
         ctr = [k \in Idx |-> Container(k, image[k], "none", FALSE)]
    /\ Rest

StoppedSpec == StoppedInit /\ [][Next]_vars

\* ------------------------------------------------------------- properties
\* The registry match of the documentation: the host or the user name.
Matches(image) == Contains(image, cfg.registryURL) \/ Contains(image, cfg.registryUser)

Created(id) == ImageCreated(id)

\* The registry holds, under the reference of container k, an image of another
\* identity that was created strictly later than the one the container runs.
NewerRemote(k) ==
    LET r == remote[PullTarget(ctr[k].Image)]
        cur == ctr[k].ImageID
    IN  /\ r # cur
        /\ Created(r) # NoTime
        /\ Created(cur) # NoTime
        /\ Created(r) > Created(cur)

Total(f) == LET RECURSIVE Sum(_)
                Sum(k) == IF k = 0 THEN 0 ELSE f[k] + Sum(k - 1)
            IN  Sum(NumContainers)

\* C1: with two listed containers, one matching the registry and behind a
\* strictly newer remote image of another identity, the other matching neither
\* the host nor the user, a tick in which no call fails restarts exactly the
\* first, sends exactly one success notification, and pulls and restarts
\* nothing for the second.
C1_OneReconciliation ==
    \A a, b \in Idx :
        ( /\ pc = "done"
          /\ Len(containers) = 2
          /\ a # b
          /\ ~log.faults
          /\ cfg.notificationURL # <<>>
          /\ Matches(containers[a].Image)
          /\ NewerRemote(a)
          /\ ~Matches(containers[b].Image) )
        => ( /\ log.updated[a]
             /\ log.restarts[a] = 1
             /\ log.okNotes[a] = 1
             /\ Total(log.okNotes) = 1
             /\ log.probed[b] = <<>>
             /\ log.restarts[b] = 0 )

\* C2: a container whose reconciliation succeeded runs the image that was
\* pulled for it.
C2_RunsPulledImage ==
    \A k \in Idx : log.updated[k] => ctr[k].ImageID = log.pulled[k]

\* C3: one check issues at most two pulls: the first, and one retry for
\* linux/amd64.
C3_AtMostTwoPulls == log.pulls <= 2

\* C4 as stated: at most one prune per tick, and only with cleanup on and a
\* container updated.
C4_PruneOncePerTick ==
    /\ log.prunes <= 1
    /\ log.prunes = 1 => (cfg.cleanup /\ updatedContainers >= 1)

\* C4 as amended: the prunes of a tick are as many as the containers updated
\* in it when cleanup is on, and none when it is off.
C4_PrunePerUpdate ==
    log.prunes = IF cfg.cleanup
                 THEN Cardinality({k \in Idx : log.updated[k]})
                 ELSE 0

C4_Witness == pc = "done" /\ updatedContainers = 2 /\ log.prunes = 2

\* The repository and the tag of a reference, and the plan of the claim.
Repository(image) ==
    IF HasTag(image) THEN SubSeq(image, 1, LastIndex(image, ":") - 1) ELSE image

PrimaryTag(image) ==
    IF HasTag(image) THEN SubSeq(image, LastIndex(image, ":") + 1, Len(image)) ELSE Latest

ExpectedPlan(image) ==
    <<Repository(image) \o <<":">> \o PrimaryTag(image)>>
    \o (IF cfg.registryTag = <<>> THEN <<>>
        ELSE <<Repository(image) \o <<":">> \o cfg.registryTag>>)

\* C5: a check that finds no update has probed <repository>:<tag> for the
\* primary tag of the container's reference and then for the configured
\* secondary tag.
C5_TagPlan ==
    \A k \in Idx :
        (pc = "done" /\ log.verdict[k] = "no update" /\ ~log.faults)
        => log.probed[k] = ExpectedPlan(containers[k].Image)

\* C6: after a successful reconciliation the container of that name has the
\* name, environment, mounts and networks it had, and another image.
C6_OnlyImageDiffers ==
    \A k \in Idx :
        log.updated[k]
        => ( /\ ctr[k].Names = containers[k].Names
             /\ ctr[k].Env = <<"ENV", k>>
             /\ ctr[k].Mounts = <<"/data", k>>
             /\ ctr[k].Networks = <<"net", k>>
             /\ ctr[k].ImageID # containers[k].ImageID )

\* C7: once the loop is at a container, it gets to the next position of the
\* listing.
C7_NextIsReached ==
    \A k \in Idx : (pc \in {"loop", "decode", "restart"} /\ i = k) ~> (i = k + 1)

\* C8: a pulled image of the identity the container runs is no update.
C8_EqualIdentityNoUpdate ==
    \A k \in Idx :
        (log.verdict[k] # "none" /\ log.pulled[k] = containers[k].ImageID)
        => log.verdict[k] = "no update"

\* C9: with another identity and both creation times known, the check says
\* update exactly when the pulled image was created strictly later.
C9_UpdateIffStrictlyNewer ==
    \A k \in Idx :
        ( /\ log.verdict[k] \in {"update", "no update"}
          /\ ~log.faults
          /\ log.pulled[k] # NoImage
          /\ log.pulled[k] # containers[k].ImageID
          /\ Created(log.pulled[k]) # NoTime
          /\ Created(containers[k].ImageID) # NoTime )
        => ( log.verdict[k] = "update"
             <=> Created(log.pulled[k]) > Created(containers[k].ImageID) )

\* C10: a creation time missing on either side is no update, and no error.
C10_MissingTimeNoUpdate ==
    \A k \in Idx :
        ( /\ log.verdict[k] \in {"update", "no update", "error"}
          /\ log.pulled[k] # NoImage
          /\ (Created(log.pulled[k]) = NoTime \/ Created(containers[k].ImageID) = NoTime) )
        => log.verdict[k] = "no update"

\* Container k is in the listing of the running tick.
Listed(k) == \E j \in DOMAIN containers : containers[j].ID = k

\* The reference of the secondary tag for a reference without a tag.
Secondary(image) == image \o <<":">> \o cfg.registryTag

\* C11: with a secondary tag configured, a listed container of the registry
\* that runs the latest tag, with nothing new under latest and a strictly
\* newer image under the secondary tag, ends a tick without faults with the
\* local latest tag at the image of the secondary tag and no local secondary
\* tag.
C11_SecondaryRetagged ==
    \A k \in Idx :
        ( /\ pc = "done"
          /\ ~log.faults
          /\ Listed(k)
          /\ cfg.registryTag # <<>>
          /\ Matches(ctr[k].Image)
          /\ ~Contains(ctr[k].Image, <<":">>)
          /\ remote[PullTarget(ctr[k].Image)] = ctr[k].ImageID
          /\ Created(remote[Secondary(ctr[k].Image)]) > Created(ctr[k].ImageID) )
        => ( /\ tags[PullTarget(ctr[k].Image)] = remote[Secondary(ctr[k].Image)]
             /\ tags[Secondary(ctr[k].Image)] = NoImage )

\* C12: with label filtering on, a container without the enable label, or
\* with a value of it other than true, has nothing pulled and nothing issued
\* for it.
C12_UnlabelledExcluded ==
    \A k \in Idx :
        (cfg.labelEnable /\ ctr[k].Label # "true")
        => ( /\ log.probed[k] = <<>>
             /\ log.ops[k] = <<>> )

C14_TicksDoNotOverlap ==
    /\ [](ticker \in {0, 1})
    /\ [][ticker' < ticker => (pc = "wait" /\ pc' \in {"loop", "done"})]_vars

\* The ticker fired during a tick that restarted a container: the firing
\* waits until the tick is over.
C14_Witness == pc = "done" /\ ticker = 1 /\ updatedContainers >= 1

RecreateSteps == <<"inspect", "stop", "remove", "create", "start">>

\* C16: the operations issued for a container are the first steps of inspect,
\* stop, remove, create, start, in that order, and all of them when its
\* reconciliation succeeded.
C16_RecreateOrder ==
    \A k \in Idx :
        /\ Len(log.ops[k]) <= Len(RecreateSteps)
        /\ log.ops[k] = SubSeq(RecreateSteps, 1, Len(log.ops[k]))
        /\ log.updated[k] => log.ops[k] = RecreateSteps

\* C18: a restart that succeeded leaves the local tag of the container at
\* what the registry holds; the tag stays there while the registry publishes
\* nothing; and in a tick that began with the container running and its tag
\* there, the check does not say update and nothing is issued for it.
C18_Converges ==
    /\ [](\A k \in Idx : log.updated[k] => InSync(k))
    /\ [][(remote' = remote /\ tags' # tags)
           => \A t \in DOMAIN tags : tags[t] = remote[t] => tags'[t] = remote'[t]]_vars
    /\ [](\A k \in Idx :
            log.settled[k] => (log.verdict[k] # "update" /\ log.ops[k] = <<>>))

\* A later tick over a container the service restarted before: checked, no
\* update, nothing issued.
C18_Witness ==
    /\ pc = "done"
    /\ \E k \in Idx : /\ ctr[k].Running
                      /\ log.settled[k]
                      /\ log.verdict[k] = "no update"
                      /\ log.ops[k] = <<>>

\* C19: something is pulled or issued only for a container whose reference
\* contains the registry host or the user name; and a tick whose listing has
\* no such container ends with nothing pulled, issued or pruned.
C19_OnlyRegistryImages ==
    /\ \A k \in Idx :
         (log.probed[k] # <<>> \/ log.ops[k] # <<>>) => Matches(ctr[k].Image)
    /\ ( /\ pc \in {"loop", "decode", "restart", "done"}
         /\ ~log.listErr
         /\ \A j \in DOMAIN containers : ~Matches(containers[j].Image) )
       => ( /\ pc = "done"
            /\ log.pulls = 0
            /\ log.prunes = 0
            /\ \A k \in Idx : log.probed[k] = <<>> /\ log.ops[k] = <<>> )

C19_Witness ==
    /\ pc = "done"
    /\ Len(containers) = NumContainers
    /\ \A j \in DOMAIN containers : ~Matches(containers[j].Image)
    /\ skippedContainers = 0

\* C20: a container whose check ended with no update or with a pull error has
\* no operation issued, is not updated, notified as updated or counted; the
\* count is that of the updated containers; and a step changes a container of
\* the daemon only if the check of that container said update.
C20_Untouched ==
    /\ [](\A k \in Idx :
            log.verdict[k] \in {"no update", "error"}
            => ( /\ log.ops[k] = <<>>
                 /\ ~log.updated[k]
                 /\ log.okNotes[k] = 0 ))
    /\ [](updatedContainers = Cardinality({k \in Idx : log.updated[k]}))
    /\ [][\A k \in Idx : ctr'[k] # ctr[k] => log'.verdict[k] = "update"]_vars

\* A tick over two stopped containers, one with no update and one with a
\* pull error: both are still stopped.
C20_Witness ==
    /\ pc = "done"
    /\ \E a, b \in Idx : /\ log.verdict[a] = "no update"
                         /\ log.verdict[b] = "error"
                         /\ ~ctr[a].Running
                         /\ ~ctr[b].Running
                         /\ NewerRemote(b)

\* C21: the references probed for a container are the first of its plan, in
\* the order of the plan; and a container whose check ended with a pull error,
\* no tag having yielded an update, has had every tag of its plan probed.
C21_PlanInOrder ==
    \A k \in Idx :
        LET plan == ExpectedPlan(ctr[k].Image)
        IN  /\ Len(log.probed[k]) <= Len(plan)
            /\ log.probed[k] = SubSeq(plan, 1, Len(log.probed[k]))
            /\ (pc = "done" /\ log.verdict[k] = "error") => log.probed[k] = plan

\* C23 as stated: a container has a success notification exactly when its
\* restart succeeded, and one only; the success notifications of the tick are
\* as many as the containers counted updated.
C23_SuccessNotified ==
    /\ \A k \in Idx : log.okNotes[k] = (IF log.updated[k] THEN 1 ELSE 0)
    /\ Total(log.okNotes) = updatedContainers

\* C23 as amended: the count is that of the containers whose restart
\* succeeded; with a notification URL each of them has one success
\* notification and no other container has any, so the notifications are as
\* many as the count; without a URL none is sent. Failed prunes are in the
\* states this is checked over.
C23_SuccessNotifiedWithURL ==
    /\ updatedContainers = Cardinality({k \in Idx : log.updated[k]})
    /\ cfg.notificationURL # <<>>
       => ( /\ \A k \in Idx : log.okNotes[k] = (IF log.updated[k] THEN 1 ELSE 0)
            /\ Total(log.okNotes) = updatedContainers )
    /\ cfg.notificationURL = <<>> => Total(log.okNotes) = 0

\* A tick with a URL in which one restart succeeded, its prune failed (and was
\* notified), and another restart failed.
C23_Witness ==
    /\ pc = "done"
    /\ cfg.notificationURL # <<>>
    /\ log.pruneNotes >= 1
    /\ updatedContainers = 1
    /\ Total(log.okNotes) = 1
    /\ \E k \in Idx : log.failed[k] /\ log.okNotes[k] = 0

=============================================================================
